---- MODULE Spec2Model ----
(***************************************************************************)
(* Batch annotation pipeline of adaptyv_analyses:                          *)
(*   annotate_binding_properties.run_batch_processing                      *)
(*     -> processing.batch.process_submissions_batch                       *)
(*          -> pool of workers running processing.batch.process_submission *)
(*               -> utils.relax.pr_relax, utils.dssp.calc_ss_percentage,   *)
(*                  utils.scores.score_interface,                          *)
(*                  utils.interface.analyze_interface_contacts             *)
(* Spec      : one call of run_batch_processing, workers interleaved at    *)
(*             the granularity of the pipeline stages.                     *)
(* SpecRelax : callers of pr_relax on one cache path, interleaved at the   *)
(*             granularity of pr_relax's statements.                       *)
(* SpecHang  : Spec with the pr_relax call of one row never returning,     *)
(*             under weak fairness of the workers' steps.                  *)
(* SpecHotspot : one call of utils.interface.hotspot_residues on a small   *)
(*             two-chain structure, one step per iteration of its loop,    *)
(*             then one call of analyze_interface_contacts on the same     *)
(*             structure and cutoff.                                       *)
(* SpecParse : one call of processing.parse.get_pdb_files, one step per    *)
(*             directory and per file name.                                *)
(* SpecDssp  : one call of utils.dssp.calc_ss_percentage, one step per     *)
(*             binder residue.                                             *)
(* SpecScore : one call of utils.scores.score_interface, one step per      *)
(*             block of the function.                                      *)
(***************************************************************************)
EXTENDS Integers, Sequences, FiniteSets, TLC

\* ------------------------------------------------------------------ bounds
MaxRows == 2        \* rows of the submission table
MaxCores == 2       \* largest mp.cpu_count() explored
MaxCalls == 3       \* pr_relax calls made in SpecRelax, over all callers
NumCallers == 2     \* concurrent callers of pr_relax in SpecRelax
GridMax == 1        \* atoms sit on the grid (0..GridMax) x (0..1)
MaxCutoff == 1      \* largest atom_distance_cutoff explored
MaxResidues == 3    \* residues of the binder chain in SpecDssp
MaxCount == 2       \* largest hydrogen-bond count the analyzer reports in SpecScore
MaxFiles == 2       \* files listed in one structure directory in SpecParse

\* structure_dirs=['001_2024', '002_2024']
NumDirs == 2

\* ------------------------------------------------------- python-level values
None == "None"

\* bool(x) of the values the pipeline tests: None is falsy, a non-empty tuple
\* (also the tuple (None, None, None)) and a non-empty dict are truthy.
Truthy(v) == v # None

\* The submission table: ids are opaque strings, one row per id.
IdNames == <<"sub1", "sub2", "sub3", "sub4">>
Table == [i \in 1..MaxRows |-> [id |-> IdNames[i], sequence |-> "SEQ"]]
TableIds == {IdNames[i] : i \in 1..MaxRows}

\* submissions.iloc[start_idx:end_idx] for non-negative indices
ILocSlice(tab, s, e) ==
    LET lo == IF s > Len(tab) THEN Len(tab) ELSE s
        hi == IF e > Len(tab) THEN Len(tab) ELSE e
    IN  IF hi <= lo THEN <<>> ELSE SubSeq(tab, lo + 1, hi)

RECURSIVE SeqToSet(_)
SeqToSet(s) == IF s = <<>> THEN {} ELSE {Head(s)} \cup SeqToSet(Tail(s))

\* ---------------------------------------------------------- get_pdb_files
\* listing[d] is the set of ids having a file "<id>.pdb" in directory d (or
\* no entry when the directory does not exist); later directories overwrite.
RECURSIVE get_pdb_files_from(_, _, _, _)
get_pdb_files_from(listing, exists, d, acc) ==
    IF d > NumDirs THEN acc
    ELSE IF ~exists[d] THEN get_pdb_files_from(listing, exists, d + 1, acc)
    ELSE get_pdb_files_from(listing, exists, d + 1,
            [i \in (DOMAIN acc) \cup listing[d] |->
                IF i \in listing[d] THEN <<"dir", d>> ELSE acc[i]])

get_pdb_files(listing, exists) ==
    get_pdb_files_from(listing, exists, 1, [i \in {} |-> <<"dir", 0>>])

\* ------------------------------------------------ behaviour of collaborators
\* What the external collaborators do for one submission whose structure file
\* exists: the place of the first failure, if any.
Behaviours == {"ok", "lookup_raise", "relax_false", "relax_raise", "dssp_raise",
               "score_raise", "score_null", "score_null_contact_none",
               "contact_none"}

\* pr_relax(pdb_path, relaxed_path) as process_submission sees it: the cache
\* check first, then the engine; every exception inside becomes False.
pr_relax_returns(cached, beh) ==
    IF cached THEN TRUE ELSE beh \notin {"relax_false"}

\* calc_ss_percentage returns its 8-tuple or raises
calc_ss_percentage(beh) == IF beh = "dssp_raise" THEN "raise" ELSE "ss8"

\* score_interface: (None, None, None) when the pose does not load, raises when
\* a later unguarded call raises, else (scores, aa_counts, residue ids)
score_interface(beh) ==
    CASE beh = "score_raise" -> "raise"
      [] beh \in {"score_null", "score_null_contact_none"} -> "NoneNoneNone"
      [] OTHER -> "scores"

\* analyze_interface_contacts: its dict, or None after any exception
analyze_interface_contacts(beh) ==
    IF beh \in {"contact_none", "score_null_contact_none"} THEN None ELSE "contacts"

\* The message of the exception raised where a stage fails: inside pr_relax
\* (relax.py 19-53), by os.makedirs (batch.py 52), inside calc_ss_percentage,
\* inside score_interface (pose loading, scores.py 19, or a later call), inside
\* analyze_interface_contacts (interface.py 57-107)
FailureMessage(beh) ==
    CASE beh = "relax_false" -> "engine error"
      [] beh = "relax_raise" -> "makedirs error"
      [] beh = "dssp_raise" -> "dssp error"
      [] beh = "score_raise" -> "scoring error"
      [] beh \in {"score_null", "score_null_contact_none"} -> "pose error"
      [] beh = "contact_none" -> "contact error"
      [] OTHER -> "none"

\* ------------------------------------------------------- process_submission
NoError == <<>>

ResultTuple(sub, dssp, iface, contact, err) ==
    [id |-> sub.id, sequence |-> sub.sequence, dssp |-> dssp,
     interface |-> iface, contact |-> contact, error |-> err]

ErrorTuple(sub, err) == ResultTuple(sub, None, None, None, err)

\* The outcome of one block of process_submission: it goes on to the next
\* block, returns a tuple, or lets an exception out.
Continue(v) == [kind |-> "continue", val |-> v]
Return(t) == [kind |-> "return", ret |-> t]
Raise(m) == [kind |-> "raise", msg |-> m]

\* try: <body> except Exception as e: return id, seq, None, None, None, f"{prefix} {id}: {e}"
StageHandler(out, sub, prefix) ==
    IF out.kind = "raise"
    THEN Return(ErrorTuple(sub, <<prefix, sub.id, out.msg>>))
    ELSE out

\* mutant: the lookup is indexed without the membership test of line 42
LookupBodyUnchecked(sub, pdb_files, beh) ==
    IF sub.id \notin DOMAIN pdb_files THEN Raise("KeyError")
    ELSE IF beh = "lookup_raise" THEN Raise("lookup error")
    ELSE Continue(pdb_files[sub.id])

\* lines 38-47: the record's fields, then the structure lookup
LookupBody(sub, pdb_files, beh) ==
    IF sub.id \notin DOMAIN pdb_files
    THEN Return(ErrorTuple(sub, <<"No PDB file found for submission", sub.id>>))
    ELSE IF beh = "lookup_raise" THEN Raise("lookup error")
    ELSE Continue(pdb_files[sub.id])

\* lines 50-66
RelaxBody(sub, cached, beh) ==
    IF beh = "relax_raise" THEN Raise("makedirs error")
    ELSE IF ~pr_relax_returns(cached, beh) THEN Raise("Structure relaxation failed")
    ELSE Continue(<<"relaxed", sub.id>>)

RelaxBlock(sub, cached, beh) ==
    StageHandler(RelaxBody(sub, cached, beh), sub, "Structure relaxation failed for")

\* lines 69-77
DsspBody(beh) ==
    LET r == calc_ss_percentage(beh)
    IN  IF r = "raise" THEN Raise("dssp error")
        ELSE IF ~Truthy(r) THEN Raise("DSSP calculation returned None")
        ELSE Continue(r)

DsspBlock(sub, beh) ==
    StageHandler(DsspBody(beh), sub, "DSSP calculation failed for")

\* lines 80-88
ScoreBody(beh) ==
    LET r == score_interface(beh)
    IN  IF r = "raise" THEN Raise("scoring error")
        ELSE IF ~Truthy(r) THEN Raise("Interface scoring returned None")
        ELSE Continue(r)

ScoreBlock(sub, beh) ==
    StageHandler(ScoreBody(beh), sub, "Interface scoring failed for")

\* lines 91-99
ContactBody(beh) ==
    LET r == analyze_interface_contacts(beh)
    IN  IF ~Truthy(r) THEN Raise("Contact analysis returned None")
        ELSE Continue(r)

ContactBlock(sub, beh) ==
    StageHandler(ContactBody(beh), sub, "Contact analysis failed for")

\* mutant: process_submission without its outermost try/except
OuterHandlerAbsent(out, sub) == out

\* lines 103-106: the handler around the whole function
OuterHandler(out, sub) ==
    IF out.kind = "raise"
    THEN Return(ErrorTuple(sub, <<"Error processing submission", sub.id, out.msg>>))
    ELSE out

\* lines 91-101: the last stage, then the tuple of the three results
ContactReturn(sub, d, f, beh) ==
    LET out == ContactBlock(sub, beh)
    IN  IF out.kind = "continue"
        THEN Return(ResultTuple(sub, d, f, out.val, NoError))
        ELSE out

\* mutant: one relaxed path for every submission
RelaxedKeyShared(id) == "relaxed"

\* line 53: relaxed_path = <save_path>/relaxed/<submission_id>.pdb, the key
\* of the relaxed-structure cache
RelaxedKey(id) == id

\* lines 36-106 run by one worker from beginning to end: the blocks in
\* their order, each entered only when the one before went on
process_submission(sub, pdbf, relaxed, beh) ==
    LET o1 == LookupBody(sub, pdbf, beh)
        o2 == RelaxBlock(sub, RelaxedKey(sub.id) \in relaxed, beh)
        o3 == DsspBlock(sub, beh)
        o4 == ScoreBlock(sub, beh)
    IN  OuterHandler(
            IF o1.kind # "continue" THEN o1
            ELSE IF o2.kind # "continue" THEN o2
            ELSE IF o3.kind # "continue" THEN o3
            ELSE IF o4.kind # "continue" THEN o4
            ELSE ContactReturn(sub, o3.val, o4.val, beh),
            sub)

\* the relaxed files after that run
RelaxedAfter(sub, pdbf, relaxed, beh) ==
    IF /\ LookupBody(sub, pdbf, beh).kind = "continue"
       /\ RelaxBlock(sub, RelaxedKey(sub.id) \in relaxed, beh).kind = "continue"
    THEN relaxed \cup {RelaxedKey(sub.id)}
    ELSE relaxed

\* --------------------------------------------------- the batch result table
DsspFields == {"helix_pct", "sheet_pct", "loop_pct", "i_helix_pct",
               "i_sheet_pct", "i_loop_pct", "i_plddt", "ss_plddt"}
InterfaceFields == {"binder_score", "surface_hydrophobicity", "interface_sc",
                    "interface_packstat", "interface_dG", "interface_dSASA",
                    "interface_dG_SASA_ratio", "interface_fraction",
                    "interface_hydrophobicity", "interface_nres",
                    "interface_interface_hbonds", "interface_hbond_percentage",
                    "interface_delta_unsat_hbonds",
                    "interface_delta_unsat_hbonds_percentage"}
ContactNumFields == {"total_interface_residues", "atom_contacts"}
ContactObjFields == {"binder_residues", "target_residues",
                     "target_residue_list", "binder_residue_list"}
StrFields == {"aa_counts", "interface_residues"}
NumericFields == DsspFields \cup InterfaceFields \cup ContactNumFields
SuccessFields == {"id", "status"} \cup NumericFields \cup StrFields \cup ContactObjFields
FailedFields == {"id", "error", "status"}
AllFields == SuccessFields \cup FailedFields

\* cells of the table: a number, a string, an object, or null (NaN / pd.NA)
Num == <<"num">>
Str == <<"str">>
Obj == <<"obj">>
NaN == <<>>

\* mutant: a failed row without its error text
FailedRowWithoutError(id, err) == [id |-> <<id>>, status |-> <<"failed">>]

\* lines 175-179, 185-189, 216-220
FailedRow(id, err) == [id |-> <<id>>, error |-> err, status |-> <<"failed">>]

\* lines 195-210
SuccessRow(id) ==
    [c \in SuccessFields |->
        CASE c = "id" -> <<id>>
          [] c = "status" -> <<"success">>
          [] c \in NumericFields -> Num
          [] c \in StrFields -> Str
          [] OTHER -> Obj]

\* lines 168-221, one iteration of the loop over results
ResultRow(r) ==
    IF r.error # NoError THEN FailedRow(r.id, r.error)
    ELSE IF ~(Truthy(r.dssp) /\ Truthy(r.interface) /\ Truthy(r.contact))
    THEN FailedRow(r.id, <<"Missing results for submission", r.id>>)
    ELSE IF r.interface = "NoneNoneNone"
    THEN FailedRow(r.id, <<"'NoneType' object is not a mapping">>)
    ELSE SuccessRow(r.id)

\* mutant: a result whose row construction raises leaves no row (the handler
\* of lines 213-221 without its append)
ProcessResultListDropsRaised(rs) ==
    LET Keep(r) == ~(r.error = NoError /\ r.interface = "NoneNoneNone")
        kept == SelectSeq(rs, Keep)
    IN  [k \in 1..Len(kept) |-> ResultRow(kept[k])]

ProcessResultList(rs) == [k \in 1..Len(rs) |-> ResultRow(rs[k])]

\* pd.DataFrame(list of dicts): the columns are the union of the keys, a key
\* a row lacks is NaN in that row
Columns(rows) == UNION {DOMAIN rows[k] : k \in 1..Len(rows)}
DataFrame(rows) ==
    [k \in 1..Len(rows) |->
        [c \in Columns(rows) |-> IF c \in DOMAIN rows[k] THEN rows[k][c] ELSE NaN]]

\* select_dtypes(include=['float64', 'int64']): the columns holding numbers
\* (and NaN) only
numeric_columns(df) ==
    {c \in Columns(df) :
        /\ \E k \in 1..Len(df) : df[k][c] = Num
        /\ \A k \in 1..Len(df) : df[k][c] \in {Num, NaN}}

\* mutant: one failed row nulls the numeric columns of every row
NullFilledEveryRow(df) ==
    [k \in 1..Len(df) |->
        [c \in DOMAIN df[k] |->
            IF (\E j \in 1..Len(df) : df[j]["status"] = <<"failed">>)
               /\ c \in numeric_columns(df)
            THEN NaN ELSE df[k][c]]]

\* lines 227-231
NullFilled(df) ==
    [k \in 1..Len(df) |->
        [c \in DOMAIN df[k] |->
            IF df[k]["status"] = <<"failed">> /\ c \in numeric_columns(df)
            THEN NaN ELSE df[k][c]]]

\* mutant: the rows are returned as they were collected (the fallback of
\* lines 232-234 taken always)
ConvertResultsRaw(all) == all

\* lines 224-237: what process_submissions_batch returns for all_results
ConvertResults(all) ==
    IF Len(all) > 0 THEN NullFilled(DataFrame(all)) ELSE <<>>

\* the value process_submissions_batch returns: False, or a list of records
BatchFalse == [ok |-> FALSE, rows |-> <<>>]
BatchRecords(rows) == [ok |-> TRUE, rows |-> rows]

\* ------------------------------------------------------------------- state
VARIABLES
    dataPathExists,   \* os.path.exists(data_path)
    structDirExists,  \* os.path.exists(data_path/dir), per structure directory
    csvExists,        \* os.path.exists(data_path/input_csv)
    fsDirs,           \* existing directories among save_path, relaxed, results
    createdDirs,      \* directories this call has created
    relaxedFiles,     \* keys having a file save_path/relaxed/<key>.pdb
    relaxed0,         \* relaxedFiles when the call began
    start_idx, end_idx,
    phase,            \* position of run_batch_processing / process_submissions_batch
    raised,           \* the error run_batch_processing raised, or "none"
    submissions,      \* the slice of the table
    pdb_files,        \* id -> structure path
    lookupBuilt,      \* get_pdb_files has run
    behaviour,        \* id -> behaviour of the collaborators for that submission
    num_cores,        \* size of the pool, 0 before the pool exists
    task,             \* per row of the slice: position and partial results
    results,          \* result tuples in completion order
    all_results,      \* rows built from results
    batch_results,    \* return value of process_submissions_batch
    artifact,         \* the batch csv: written flag and rows
    hung,             \* rows of the slice whose pr_relax call never returns
    \* SpecRelax: callers of pr_relax(pdb_file, relaxed_pdb_path) on one path
    cacheFile,        \* content of the file at relaxed_pdb_path
    rpc,              \* per caller: position inside pr_relax, "idle" outside
    rbuf,             \* per caller: relevant_lines read by clean_pdb
    rret,             \* per caller: what its last finished call returned
    engineRuns,       \* per caller: engine invocations of its current/last call
    afterSuccess,     \* per caller: its current/last call began after a call returned True
    hitSeen,          \* per caller: content of the file when its call hit the cache
    callsLeft,        \* calls of pr_relax still to be made
    succeeded,        \* some call has returned True
    completed,        \* some call has run relaxation, dump and clean_pdb to the end
    \* SpecHotspot: one call of hotspot_residues(trajectory_pdb, "A", "B", atom_distance_cutoff)
    structure,        \* the parsed structure: atoms of the two chains, residue names
    atom_distance_cutoff,
    hpc,              \* position inside hotspot_residues
    pairs,            \* binder_tree.query_ball_tree(target_tree, atom_distance_cutoff)
    binder_idx,       \* loop index of line 39 (1-based)
    interacting_residues, \* the dict being built: residue number -> letter
    \* then one call of analyze_interface_contacts on the same file and cutoff
    cpc,              \* position inside analyze_interface_contacts
    contact_pairs,    \* pairs of line 71
    contact_idx,      \* loop index of line 79 (1-based)
    binder_residues,  \* residue number -> letter
    target_residues,  \* residue number -> letter
    target_residue_indices,
    atom_contacts,
    contact_results,  \* the value returned: kind "None", or kind "dict" and the dict
    \* SpecDssp: one call of calc_ss_percentage
    chain,            \* the binder residues: DSSP code, interface membership, failure
    dssp_setup,       \* outcome of lines 11-58: "ok" or the step that raised
    dpc,              \* position inside calc_ss_percentage
    residue_idx,      \* loop index of line 60 (1-based)
    ss_counts,        \* residues counted per class
    ss_interface_counts,
    plddts_ss,        \* residues whose mean b-factor was appended, in order
    plddts_interface,
    ss_summary,       \* the tuple returned, as a record
    \* SpecScore: one call of score_interface
    score_fault,      \* the call inside score_interface that raises, or "none"
    interface_residues_set,  \* what hotspot_residues returns for the structure
    measured,         \* counts the analyzer reports: hbonds, unsat
    spc,              \* position inside score_interface
    score_locals,     \* local variables assigned so far: name -> value
    interface_AA,     \* letter -> count
    interface_residues_pdb_ids,
    score_ret,        \* "none", "NoneNoneNone", "raised" or "record"
    \* SpecParse: one call of get_pdb_files(structure_dirs)
    dir_files,        \* os.listdir of each directory of structure_dirs
    dir_present,      \* os.path.exists of each directory
    ppc,              \* position inside get_pdb_files
    directory,        \* index in structure_dirs of the directory being visited
    unvisited,        \* file names of the directory the inner loop has yet to visit
    found             \* the dict pdb_files being built: id -> <<directory, file name>>

batchVars == <<dataPathExists, structDirExists, csvExists, fsDirs, createdDirs,
          relaxedFiles, relaxed0, start_idx, end_idx, phase, raised, submissions,
          pdb_files, lookupBuilt, behaviour, num_cores, task, results,
          all_results, batch_results, artifact, hung>>

relaxVars == <<cacheFile, rpc, rbuf, rret, engineRuns, afterSuccess, hitSeen,
               callsLeft, succeeded, completed>>

contactVars == <<cpc, contact_pairs, contact_idx, binder_residues, target_residues,
                 target_residue_indices, atom_contacts, contact_results>>

hotspotVars == <<structure, atom_distance_cutoff, hpc, pairs, binder_idx,
                 interacting_residues, contactVars>>

dsspVars == <<chain, dssp_setup, dpc, residue_idx, ss_counts, ss_interface_counts,
              plddts_ss, plddts_interface, ss_summary>>

scoreVars == <<score_fault, interface_residues_set, measured, spc, score_locals,
               interface_AA, interface_residues_pdb_ids, score_ret>>

parseVars == <<dir_files, dir_present, ppc, directory, unvisited, found>>

pureVars == <<hotspotVars, dsspVars, scoreVars, parseVars>>


vars == <<batchVars, relaxVars, pureVars>>

inputVars == <<dataPathExists, structDirExists, csvExists, start_idx, end_idx, relaxed0,
               hung>>

SaveDirs == {"save_path", "relaxed", "results"}
NoArtifact == [written |-> FALSE, rows |-> <<>>]
EmptyMap == [i \in {} |-> None]

Callers == 1..NumCallers

\* no pr_relax caller of SpecRelax exists in Spec
RelaxIdle ==
    /\ cacheFile = "absent"
    /\ rpc = [w \in Callers |-> "idle"]
    /\ rbuf = [w \in Callers |-> "absent"]
    /\ rret = [w \in Callers |-> "none"]
    /\ engineRuns = [w \in Callers |-> 0]
    /\ afterSuccess = [w \in Callers |-> FALSE]
    /\ hitSeen = [w \in Callers |-> "none"]
    /\ callsLeft = 0
    /\ succeeded = FALSE
    /\ completed = FALSE

\* analyze_interface_contacts has assigned nothing yet
ContactsNotStarted ==
    /\ contact_pairs = <<>>
    /\ contact_idx = 0
    /\ binder_residues = EmptyMap
    /\ target_residues = EmptyMap
    /\ target_residue_indices = {}
    /\ atom_contacts = 0
    /\ contact_results = [kind |-> "pending"]

\* no call of hotspot_residues or analyze_interface_contacts is in progress
HotspotIdle ==
    /\ structure = [binder |-> <<>>, target |-> <<>>, resname |-> EmptyMap]
    /\ atom_distance_cutoff = 0
    /\ hpc = "idle"
    /\ pairs = <<>>
    /\ binder_idx = 0
    /\ interacting_residues = EmptyMap
    /\ cpc = "idle"
    /\ ContactsNotStarted

NoCounts == [helix |-> 0, sheet |-> 0, loop |-> 0]

\* no call of calc_ss_percentage is in progress
DsspIdle ==
    /\ chain = <<>>
    /\ dssp_setup = "ok"
    /\ dpc = "idle"
    /\ residue_idx = 0
    /\ ss_counts = NoCounts
    /\ ss_interface_counts = NoCounts
    /\ plddts_ss = <<>>
    /\ plddts_interface = <<>>
    /\ ss_summary = None

\* no call of score_interface is in progress
ScoreIdle ==
    /\ score_fault = "none"
    /\ interface_residues_set = EmptyMap
    /\ measured = [hbonds |-> 0, unsat |-> 0]
    /\ spc = "idle"
    /\ score_locals = EmptyMap
    /\ interface_AA = EmptyMap
    /\ interface_residues_pdb_ids = <<>>
    /\ score_ret = "none"

\* no call of get_pdb_files on file names is in progress
ParseIdle ==
    /\ dir_files = [d \in 1..NumDirs |-> {}]
    /\ dir_present = [d \in 1..NumDirs |-> FALSE]
    /\ ppc = "idle"
    /\ directory = 0
    /\ unvisited = {}
    /\ found = EmptyMap

PureIdle == HotspotIdle /\ DsspIdle /\ ScoreIdle /\ ParseIdle

\* run_batch_processing has not been called
BatchIdle ==
    /\ dataPathExists = TRUE
    /\ structDirExists = [d \in 1..NumDirs |-> TRUE]
    /\ csvExists = TRUE
    /\ fsDirs = SaveDirs
    /\ createdDirs = {}
    /\ relaxedFiles = {}
    /\ relaxed0 = {}
    /\ start_idx = 0
    /\ end_idx = 0
    /\ phase = "idle"
    /\ raised = "none"
    /\ submissions = <<>>
    /\ pdb_files = EmptyMap
    /\ lookupBuilt = FALSE
    /\ behaviour = EmptyMap
    /\ num_cores = 0
    /\ task = <<>>
    /\ results = <<>>
    /\ all_results = <<>>
    /\ batch_results = BatchFalse
    /\ artifact = NoArtifact
    /\ hung = {}

\* the state in which run_batch_processing is called
InitBatch ==
    /\ RelaxIdle
    /\ PureIdle
    /\ dataPathExists \in BOOLEAN
    /\ structDirExists \in [1..NumDirs -> BOOLEAN]
    /\ csvExists \in BOOLEAN
    /\ ~dataPathExists => (~csvExists /\ \A d \in 1..NumDirs : ~structDirExists[d])
    /\ fsDirs \in {{}, SaveDirs}
    /\ createdDirs = {}
    /\ relaxedFiles \in {{}, {IdNames[1]}}
    /\ fsDirs = {} => relaxedFiles = {}
    /\ relaxed0 = relaxedFiles
    /\ start_idx \in 0..MaxRows
    /\ end_idx \in 0..MaxRows
    /\ phase = "start"
    /\ raised = "none"
    /\ submissions = <<>>
    /\ pdb_files = EmptyMap
    /\ lookupBuilt = FALSE
    /\ behaviour = EmptyMap
    /\ num_cores = 0
    /\ task = <<>>
    /\ results = <<>>
    /\ all_results = <<>>
    /\ batch_results = BatchFalse
    /\ artifact = NoArtifact

\* every call of pr_relax returns
Init == InitBatch /\ hung = {}

\* the pr_relax call of one row of the table never returns
InitHang == InitBatch /\ hung \in {{k} : k \in 1..MaxRows}

\* ------------------------------------------------- run_batch_processing
\* mutant: the input csv is not checked
PreconditionErrorNoCsvCheck(dataOk, dirsOk, csvOk) ==
    IF ~dataOk THEN "Data path does not exist"
    ELSE IF \E d \in 1..NumDirs : ~dirsOk[d] THEN "Structure directory does not exist"
    ELSE "none"

\* lines 93-117 of annotate_binding_properties.py: the checks, in their order
PreconditionError(dataOk, dirsOk, csvOk) ==
    IF ~dataOk THEN "Data path does not exist"
    ELSE IF \E d \in 1..NumDirs : ~dirsOk[d] THEN "Structure directory does not exist"
    ELSE IF ~csvOk THEN "Input CSV file does not exist"
    ELSE "none"

\* lines 102-112: the directories made before the input csv is looked at
DirsMadeByChecks(dataOk, dirsOk, have) ==
    IF dataOk /\ \A d \in 1..NumDirs : dirsOk[d] THEN SaveDirs \ have ELSE {}

CheckPreconditions ==
    /\ phase = "start"
    /\ LET err == PreconditionError(dataPathExists, structDirExists, csvExists)
           made == DirsMadeByChecks(dataPathExists, structDirExists, fsDirs)
       IN  /\ fsDirs' = fsDirs \cup made
           /\ createdDirs' = createdDirs \cup made
           /\ raised' = err
           /\ phase' = IF err = "none" THEN "batch" ELSE "raised"
    /\ UNCHANGED <<relaxVars, pureVars, inputVars, relaxedFiles, submissions, pdb_files, lookupBuilt,
                   behaviour, num_cores, task, results, all_results,
                   batch_results, artifact>>

\* ------------------------------------------- process_submissions_batch
\* mutant: an empty slice is not refused
EmptySliceIgnored(sl) == FALSE

\* lines 125-127: the slice holds no row
EmptySlice(sl) == Len(sl) = 0

\* lines 119-127: read the table (pd.read_csv raises for a missing file, which
\* the handler of lines 239-241 turns into False), take the slice, refuse an
\* empty one
ReadSubmissions ==
    /\ phase = "batch"
    /\ LET sl == IF csvExists THEN ILocSlice(Table, start_idx, end_idx) ELSE <<>>
       IN  /\ submissions' = sl
           /\ IF ~csvExists \/ EmptySlice(sl)
              THEN phase' = "returned" /\ batch_results' = BatchFalse
              ELSE phase' = "sliced" /\ UNCHANGED batch_results
    /\ UNCHANGED <<relaxVars, pureVars, inputVars, fsDirs, createdDirs, relaxedFiles, raised, pdb_files,
                   lookupBuilt, behaviour, num_cores, task, results, all_results,
                   artifact>>

HomeDir(id) == CHOOSE d \in 1..NumDirs : \E i \in 1..Len(IdNames) : IdNames[i] = id /\ d = ((i - 1) % NumDirs) + 1

\* line 130: the directory scan
GetPdbFiles ==
    /\ phase = "sliced"
    /\ \E present \in SUBSET TableIds :
          pdb_files' = get_pdb_files(
              [d \in 1..NumDirs |-> {i \in present : HomeDir(i) = d}],
              structDirExists)
    /\ lookupBuilt' = TRUE
    /\ phase' = "lookup"
    /\ UNCHANGED <<relaxVars, pureVars, inputVars, fsDirs, createdDirs, relaxedFiles, raised, submissions,
                   behaviour, num_cores, task, results, all_results,
                   batch_results, artifact>>

SliceIds == {submissions[k].id : k \in 1..Len(submissions)}

\* lines 134-148: the pool of mp.cpu_count() workers
CreatePool ==
    /\ phase = "lookup"
    /\ num_cores' \in 1..MaxCores
    /\ behaviour' \in [SliceIds \cap DOMAIN pdb_files -> Behaviours]
    /\ task' = [k \in 1..Len(submissions) |-> [pc |-> "queued", dssp |-> None, interface |-> None]]
    /\ results' = <<>>
    /\ phase' = "pool"
    /\ UNCHANGED <<relaxVars, pureVars, inputVars, fsDirs, createdDirs, relaxedFiles, raised, submissions,
                   pdb_files, lookupBuilt, all_results, batch_results, artifact>>

Running == {k \in 1..Len(task) : task[k].pc \in {"relax", "dssp", "score", "contact"}}
Queued == {k \in 1..Len(task) : task[k].pc = "queued"}
BehaviourOf(k) ==
    IF submissions[k].id \in DOMAIN behaviour THEN behaviour[submissions[k].id] ELSE "ok"

\* What the parent does with the outcome of a worker's call: a returned tuple is
\* appended to results (lines 162-164); an exception that escaped the worker
\* is re-raised by imap_unordered and ends the batch in the handler of lines
\* 239-241.
Deliver(k, out, nextpc, d, f) ==
    IF out.kind = "continue"
    THEN /\ task' = [task EXCEPT ![k] = [pc |-> nextpc, dssp |-> d, interface |-> f]]
         /\ UNCHANGED <<results, phase, batch_results>>
    ELSE IF out.kind = "return"
    THEN /\ task' = [task EXCEPT ![k].pc = "done"]
         /\ results' = Append(results, out.ret)
         /\ UNCHANGED <<phase, batch_results>>
    ELSE /\ task' = [task EXCEPT ![k].pc = "raised"]
         /\ phase' = "returned"
         /\ batch_results' = BatchFalse
         /\ UNCHANGED results

\* mutant: the pool hands out a row only when no call is in progress
SlotFreeSerial == Running = {}

\* a worker of the pool is idle: every worker runs one call at a time, and
\* imap_unordered hands out one row per task (chunksize 1)
SlotFree == Cardinality(Running) < num_cores

\* a free worker takes the next row, in table order, and runs lines 38-47
Dispatch(k) ==
    /\ phase = "pool"
    /\ k \in Queued
    /\ \A j \in Queued : k <= j
    /\ SlotFree
    /\ Deliver(k, OuterHandler(LookupBody(submissions[k], pdb_files, BehaviourOf(k)),
                               submissions[k]),
               "relax", None, None)
    /\ UNCHANGED <<relaxVars, pureVars, inputVars, fsDirs, createdDirs, relaxedFiles, raised, submissions,
                   pdb_files, lookupBuilt, behaviour, num_cores, all_results, artifact>>

\* lines 50-66; the call of line 55 of a row of hung never returns
RelaxStage(k) ==
    /\ phase = "pool"
    /\ k \in 1..Len(task) /\ task[k].pc = "relax"
    /\ k \notin hung
    /\ LET sub == submissions[k]
           out == OuterHandler(RelaxBlock(sub, RelaxedKey(sub.id) \in relaxedFiles,
                                          BehaviourOf(k)), sub)
       IN  /\ Deliver(k, out, "dssp", None, None)
           /\ relaxedFiles' = IF out.kind = "continue"
                              THEN relaxedFiles \cup {RelaxedKey(sub.id)}
                              ELSE relaxedFiles
    /\ UNCHANGED <<relaxVars, pureVars, inputVars, fsDirs, createdDirs, raised, submissions,
                   pdb_files, lookupBuilt, behaviour, num_cores, all_results, artifact>>

DsspStage(k) ==
    /\ phase = "pool"
    /\ k \in 1..Len(task) /\ task[k].pc = "dssp"
    /\ LET sub == submissions[k]
           out == OuterHandler(DsspBlock(sub, BehaviourOf(k)), sub)
       IN  Deliver(k, out, "score", IF out.kind = "continue" THEN out.val ELSE None, None)
    /\ UNCHANGED <<relaxVars, pureVars, inputVars, fsDirs, createdDirs, relaxedFiles, raised, submissions,
                   pdb_files, lookupBuilt, behaviour, num_cores, all_results, artifact>>

ScoreStage(k) ==
    /\ phase = "pool"
    /\ k \in 1..Len(task) /\ task[k].pc = "score"
    /\ LET sub == submissions[k]
           out == OuterHandler(ScoreBlock(sub, BehaviourOf(k)), sub)
       IN  Deliver(k, out, "contact", task[k].dssp,
                   IF out.kind = "continue" THEN out.val ELSE None)
    /\ UNCHANGED <<relaxVars, pureVars, inputVars, fsDirs, createdDirs, relaxedFiles, raised, submissions,
                   pdb_files, lookupBuilt, behaviour, num_cores, all_results, artifact>>

ContactStage(k) ==
    /\ phase = "pool"
    /\ k \in 1..Len(task) /\ task[k].pc = "contact"
    /\ LET sub == submissions[k]
           out == OuterHandler(ContactReturn(sub, task[k].dssp, task[k].interface,
                                             BehaviourOf(k)), sub)
       IN  Deliver(k, out, "done", None, None)
    /\ UNCHANGED <<relaxVars, pureVars, inputVars, fsDirs, createdDirs, relaxedFiles, raised, submissions,
                   pdb_files, lookupBuilt, behaviour, num_cores, all_results, artifact>>

\* lines 167-221: every result becomes a row
ProcessResults ==
    /\ phase = "pool"
    /\ \A k \in 1..Len(task) : task[k].pc = "done"
    /\ all_results' = ProcessResultList(results)
    /\ phase' = "collected"
    /\ UNCHANGED <<relaxVars, pureVars, inputVars, fsDirs, createdDirs, relaxedFiles, raised, submissions,
                   pdb_files, lookupBuilt, behaviour, num_cores, task, results,
                   batch_results, artifact>>

\* lines 223-237
ReturnRecords ==
    /\ phase = "collected"
    /\ batch_results' = BatchRecords(ConvertResults(all_results))
    /\ phase' = "returned"
    /\ UNCHANGED <<relaxVars, pureVars, inputVars, fsDirs, createdDirs, relaxedFiles, raised, submissions,
                   pdb_files, lookupBuilt, behaviour, num_cores, task, results,
                   all_results, artifact>>

\* annotate_binding_properties.py lines 121-127: pd.DataFrame(batch_results)
\* raises for the scalar False, else the table is written
SaveBatch ==
    /\ phase = "returned"
    /\ IF batch_results.ok
       THEN /\ artifact' = [written |-> TRUE, rows |-> batch_results.rows]
            /\ phase' = "saved"
            /\ UNCHANGED raised
       ELSE /\ raised' = "DataFrame constructor not properly called!"
            /\ phase' = "raised"
            /\ UNCHANGED artifact
    /\ UNCHANGED <<relaxVars, pureVars, inputVars, fsDirs, createdDirs, relaxedFiles, submissions,
                   pdb_files, lookupBuilt, behaviour, num_cores, task, results,
                   all_results, batch_results>>

Next ==
    \/ CheckPreconditions
    \/ ReadSubmissions
    \/ GetPdbFiles
    \/ CreatePool
    \/ \E k \in 1..MaxRows : Dispatch(k)
    \/ \E k \in 1..MaxRows : RelaxStage(k)
    \/ \E k \in 1..MaxRows : DsspStage(k)
    \/ \E k \in 1..MaxRows : ScoreStage(k)
    \/ \E k \in 1..MaxRows : ContactStage(k)
    \/ ProcessResults
    \/ ReturnRecords
    \/ SaveBatch

Spec == Init /\ [][Next]_vars

\* One pr_relax call may never return. Every worker of the pool is a process
\* of its own that keeps running, and the pool hands a queued row to an idle
\* worker: a step of a call that can be taken is eventually taken.
SpecHang ==
    /\ InitHang
    /\ [][Next]_vars
    /\ \A k \in 1..MaxRows :
          /\ WF_vars(Dispatch(k))
          /\ WF_vars(RelaxStage(k))
          /\ WF_vars(DsspStage(k))
          /\ WF_vars(ScoreStage(k))
          /\ WF_vars(ContactStage(k))

\* ------------------------------------------------------------------ pr_relax
\* os.path.exists(relaxed_pdb_path)
os_path_exists(f) == f # "absent"

\* mutant: the cache path is not looked at
CacheHitNever(f) == FALSE

\* relax.py lines 14-16: an existing file is taken as the relaxed structure
CacheHit(f) == os_path_exists(f)

\* pdb.py lines 5-6: the lines clean_pdb keeps of what it reads
relevant_lines(f) == IF f = "dumped" THEN "clean" ELSE f

\* relax.py lines 56-62
VerifySaved(f) == os_path_exists(f)

\* what the engine part of one call does (lines 19-50): pose_from_pdb raises,
\* FastRelax / the alignment / the B-factor copy raises, or all of it runs
EngineOutcomes == {"load_raise", "relax_raise", "ok"}
EngineInvocations(o) == IF o = "load_raise" THEN 1 ELSE 2

InitRelax ==
    /\ PureIdle
    /\ cacheFile \in {"absent", "clean"}
    /\ rpc = [w \in Callers |-> "idle"]
    /\ rbuf = [w \in Callers |-> "absent"]
    /\ rret = [w \in Callers |-> "none"]
    /\ engineRuns = [w \in Callers |-> 0]
    /\ afterSuccess = [w \in Callers |-> FALSE]
    /\ hitSeen = [w \in Callers |-> "none"]
    /\ callsLeft = MaxCalls
    /\ succeeded = FALSE
    /\ completed = FALSE
    \* the batch of Spec is not running
    /\ dataPathExists = TRUE
    /\ structDirExists = [d \in 1..NumDirs |-> TRUE]
    /\ csvExists = TRUE
    /\ fsDirs = SaveDirs
    /\ createdDirs = {}
    /\ relaxedFiles = {}
    /\ relaxed0 = {}
    /\ start_idx = 0
    /\ end_idx = 0
    /\ phase = "relax_only"
    /\ raised = "none"
    /\ submissions = <<>>
    /\ pdb_files = EmptyMap
    /\ lookupBuilt = FALSE
    /\ behaviour = EmptyMap
    /\ num_cores = 0
    /\ task = <<>>
    /\ results = <<>>
    /\ all_results = <<>>
    /\ batch_results = BatchFalse
    /\ artifact = NoArtifact
    /\ hung = {}

\* return True / return False of caller w
RelaxReturn(w, val) ==
    /\ rpc' = [rpc EXCEPT ![w] = "idle"]
    /\ rret' = [rret EXCEPT ![w] = IF val THEN "True" ELSE "False"]
    /\ succeeded' = (succeeded \/ val)

\* lines 10-18: the call begins with the test of the cache path
RelaxCall(w) ==
    /\ rpc[w] = "idle"
    /\ callsLeft > 0
    /\ callsLeft' = callsLeft - 1
    /\ afterSuccess' = [afterSuccess EXCEPT ![w] = succeeded]
    /\ engineRuns' = [engineRuns EXCEPT ![w] = 0]
    /\ IF CacheHit(cacheFile)
       THEN /\ RelaxReturn(w, TRUE)
            /\ hitSeen' = [hitSeen EXCEPT ![w] = cacheFile]
       ELSE /\ rpc' = [rpc EXCEPT ![w] = "engine"]
            /\ rret' = [rret EXCEPT ![w] = "none"]
            /\ hitSeen' = [hitSeen EXCEPT ![w] = "none"]
            /\ UNCHANGED succeeded
    /\ UNCHANGED <<batchVars, pureVars, cacheFile, rbuf, completed>>

\* lines 19-50, and the handler of lines 64-66 when they raise
RelaxEngine(w) ==
    /\ rpc[w] = "engine"
    /\ \E o \in EngineOutcomes :
          /\ engineRuns' = [engineRuns EXCEPT ![w] = EngineInvocations(o)]
          /\ IF o = "ok"
             THEN rpc' = [rpc EXCEPT ![w] = "dump"] /\ UNCHANGED <<rret, succeeded>>
             ELSE RelaxReturn(w, FALSE)
    /\ UNCHANGED <<batchVars, pureVars, cacheFile, rbuf, afterSuccess, hitSeen, callsLeft, completed>>

\* line 52, pose.dump_pdb opening its output: the file exists from here on
RelaxDumpOpen(w) ==
    /\ rpc[w] = "dump"
    /\ \E ok \in BOOLEAN :
          IF ok
          THEN /\ cacheFile' = "partial"
               /\ rpc' = [rpc EXCEPT ![w] = "dump_write"]
               /\ UNCHANGED <<rret, succeeded>>
          ELSE RelaxReturn(w, FALSE) /\ UNCHANGED cacheFile
    /\ UNCHANGED <<batchVars, pureVars, rbuf, engineRuns, afterSuccess, hitSeen, callsLeft, completed>>

\* line 52, pose.dump_pdb writing the structure
RelaxDumpWrite(w) ==
    /\ rpc[w] = "dump_write"
    /\ \E ok \in BOOLEAN :
          IF ok
          THEN /\ cacheFile' = "dumped"
               /\ rpc' = [rpc EXCEPT ![w] = "clean_read"]
               /\ UNCHANGED <<rret, succeeded>>
          ELSE RelaxReturn(w, FALSE) /\ UNCHANGED cacheFile
    /\ UNCHANGED <<batchVars, pureVars, rbuf, engineRuns, afterSuccess, hitSeen, callsLeft, completed>>

\* line 53, clean_pdb: pdb.py lines 5-6
CleanRead(w) ==
    /\ rpc[w] = "clean_read"
    /\ \E ok \in BOOLEAN :
          IF ok
          THEN /\ rbuf' = [rbuf EXCEPT ![w] = relevant_lines(cacheFile)]
               /\ rpc' = [rpc EXCEPT ![w] = "clean_open"]
               /\ UNCHANGED <<rret, succeeded>>
          ELSE RelaxReturn(w, FALSE) /\ UNCHANGED rbuf
    /\ UNCHANGED <<batchVars, pureVars, cacheFile, engineRuns, afterSuccess, hitSeen, callsLeft, completed>>

\* pdb.py line 8: open(pdb_file, 'w') truncates the file
CleanOpen(w) ==
    /\ rpc[w] = "clean_open"
    /\ cacheFile' = "empty"
    /\ rpc' = [rpc EXCEPT ![w] = "clean_write"]
    /\ UNCHANGED <<batchVars, pureVars, rbuf, rret, engineRuns, afterSuccess, hitSeen,
                   callsLeft, succeeded, completed>>

\* pdb.py line 9, then relax.py lines 54-62
CleanWrite(w) ==
    /\ rpc[w] = "clean_write"
    /\ cacheFile' = rbuf[w]
    /\ RelaxReturn(w, VerifySaved(rbuf[w]))
    /\ completed' = TRUE
    /\ UNCHANGED <<batchVars, pureVars, rbuf, engineRuns, afterSuccess, hitSeen, callsLeft>>

NextRelax ==
    \/ \E w \in Callers : RelaxCall(w)
    \/ \E w \in Callers : RelaxEngine(w)
    \/ \E w \in Callers : RelaxDumpOpen(w)
    \/ \E w \in Callers : RelaxDumpWrite(w)
    \/ \E w \in Callers : CleanRead(w)
    \/ \E w \in Callers : CleanOpen(w)
    \/ \E w \in Callers : CleanWrite(w)

SpecRelax == InitRelax /\ [][NextRelax]_vars

\* ------------------------------------------------------- hotspot_residues
\* utils/constants.py: residue name -> one-letter code, standard amino acids
THREE_TO_ONE_MAP ==
    [n \in {"ALA", "GLY", "LYS"} |->
        IF n = "ALA" THEN "A" ELSE IF n = "GLY" THEN "G" ELSE "K"]

\* atom.coord, on a grid
Points == {<<x, y>> : x \in 0..GridMax, y \in 0..1}

\* residue numbers (residue.id[1]) of the two chains
BinderResidues == {10, 11}
TargetResidues == {20, 21}

\* the atoms of a chain in file order, each with its parent residue's number;
\* the first atom of a chain belongs to the chain's first residue
AtomLists(first, residues, lens) ==
    {a \in UNION {[1..n -> [res : residues, coord : Points]] : n \in lens} :
        Len(a) > 0 => a[1].res = first}

\* squared Euclidean distance of two coordinates
Dist2(p, q) == (p[1] - q[1]) * (p[1] - q[1]) + (p[2] - q[2]) * (p[2] - q[2])

\* mutant: points strictly closer than r
query_ball_tree_strict(binder_coords, target_coords, r) ==
    [i \in 1..Len(binder_coords) |->
        {j \in 1..Len(target_coords) :
            Dist2(binder_coords[i], target_coords[j]) < r * r}]

\* cKDTree.query_ball_tree: for each point of the first tree, the indices of
\* the points of the second tree at distance at most r
query_ball_tree(binder_coords, target_coords, r) ==
    [i \in 1..Len(binder_coords) |->
        {j \in 1..Len(target_coords) :
            Dist2(binder_coords[i], target_coords[j]) <= r * r}]

Coords(atoms) == [i \in 1..Len(atoms) |-> atoms[i].coord]

\* mutant: the residue of every binder atom of standard type is recorded
HotspotVisitAlways(st, prs, idx, acc) ==
    LET res == st.binder[idx].res
        binder_resname == st.resname[res]
    IN  IF binder_resname \in DOMAIN THREE_TO_ONE_MAP
        THEN [k \in (DOMAIN acc) \cup {res} |->
                 IF k = res THEN THREE_TO_ONE_MAP[binder_resname] ELSE acc[k]]
        ELSE acc

\* lines 40-46: one iteration of the loop over pairs
HotspotVisit(st, prs, idx, acc) ==
    LET res == st.binder[idx].res
        binder_resname == st.resname[res]
    IN  IF binder_resname \in DOMAIN THREE_TO_ONE_MAP /\ prs[idx] # {}
        THEN [k \in (DOMAIN acc) \cup {res} |->
                 IF k = res THEN THREE_TO_ONE_MAP[binder_resname] ELSE acc[k]]
        ELSE acc

\* lines 15-26: a chain is absent from the structure or has no atom
HotspotChainError(st) ==
    IF Len(st.binder) = 0 THEN "Binder chain not found"
    ELSE IF Len(st.target) = 0 THEN "Target chain not found"
    ELSE "none"

RECURSIVE HotspotLoop(_, _, _, _)
HotspotLoop(st, prs, idx, acc) ==
    IF idx > Len(st.binder) THEN acc
    ELSE HotspotLoop(st, prs, idx + 1, HotspotVisit(st, prs, idx, acc))

\* hotspot_residues as a function: the error raised, or the dict returned
hotspot_residues(st, cutoff) ==
    IF HotspotChainError(st) # "none"
    THEN Raise(HotspotChainError(st))
    ELSE Continue(HotspotLoop(st, query_ball_tree(Coords(st.binder), Coords(st.target), cutoff),
                              1, EmptyMap))

InitHotspot ==
    /\ RelaxIdle
    /\ BatchIdle
    /\ DsspIdle
    /\ ScoreIdle
    /\ ParseIdle
    /\ structure \in [binder : AtomLists(10, BinderResidues, {0, 2}),
                      target : AtomLists(20, TargetResidues, {0, 1, 2}),
                      resname : {[r \in BinderResidues \cup TargetResidues |->
                                    IF r = 10 THEN n
                                    ELSE IF r = 11 THEN "GLY"
                                    ELSE IF r = 20 THEN "LYS" ELSE m] :
                                 n \in {"ALA", "MSE"}, m \in {"LYS", "HOH"}}]
    /\ atom_distance_cutoff \in 0..MaxCutoff
    /\ hpc = "start"
    /\ pairs = <<>>
    /\ binder_idx = 0
    /\ interacting_residues = EmptyMap
    /\ cpc = "start"
    /\ ContactsNotStarted

\* lines 11-35: parse, check the chains, build the trees, query
HotspotQuery ==
    /\ hpc = "start"
    /\ IF HotspotChainError(structure) # "none"
       THEN hpc' = "raised" /\ UNCHANGED <<pairs, binder_idx>>
       ELSE /\ pairs' = query_ball_tree(Coords(structure.binder), Coords(structure.target),
                                       atom_distance_cutoff)
            /\ binder_idx' = 1
            /\ hpc' = "loop"
    /\ UNCHANGED <<batchVars, relaxVars, parseVars, dsspVars, scoreVars, contactVars, structure, atom_distance_cutoff, interacting_residues>>

\* lines 39-46: one binder atom
HotspotStep ==
    /\ hpc = "loop"
    /\ binder_idx <= Len(structure.binder)
    /\ interacting_residues' = HotspotVisit(structure, pairs, binder_idx, interacting_residues)
    /\ binder_idx' = binder_idx + 1
    /\ UNCHANGED <<batchVars, relaxVars, parseVars, dsspVars, scoreVars, contactVars, structure, atom_distance_cutoff, hpc, pairs>>

\* line 49
HotspotReturn ==
    /\ hpc = "loop"
    /\ binder_idx > Len(structure.binder)
    /\ hpc' = "returned"
    /\ UNCHANGED <<batchVars, relaxVars, parseVars, dsspVars, scoreVars, contactVars, structure, atom_distance_cutoff, pairs, binder_idx,
                   interacting_residues>>

\* --------------------------------------------- analyze_interface_contacts
\* mutant: the setup never fails
ContactsSetupFailsNever(st) == FALSE

\* lines 62-69: structure[0][chain] raises KeyError for a chain that is absent,
\* and cKDTree raises ValueError for the coordinate array of a chain without
\* atoms (an array of one dimension); a chain of length 0 stands for both
ContactsSetupFails(st) == Len(st.binder) = 0 \/ Len(st.target) = 0

\* line 77: sum(len(close_indices) for close_indices in pairs), from index i on
RECURSIVE SumLen(_, _)
SumLen(prs, i) ==
    IF i > Len(prs) THEN 0 ELSE Cardinality(prs[i]) + SumLen(prs, i + 1)

\* sorted(list(S)) for a set of residue numbers
RECURSIVE sorted(_)
sorted(S) ==
    IF S = {} THEN <<>>
    ELSE LET m == CHOOSE x \in S : \A y \in S : x <= y
         IN  <<m>> \o sorted(S \ {m})

\* mutant: residues are recorded whatever their type
ContactsVisitAnyType(st, prs, idx, acc) ==
    LET res == st.binder[idx].res
        close == {st.target[c].res : c \in prs[idx]}
    IN  IF prs[idx] # {}
        THEN [binder |-> [k \in (DOMAIN acc.binder) \cup {res} |-> st.resname[k]],
              target |-> [k \in (DOMAIN acc.target) \cup close |-> st.resname[k]],
              indices |-> acc.indices \cup close]
        ELSE acc

\* lines 80-94: one iteration of the loop over pairs; the target residues of
\* the close atoms are recorded inside the branch of a binder residue of
\* standard type
ContactsVisit(st, prs, idx, acc) ==
    LET res == st.binder[idx].res
        binder_resname == st.resname[res]
        close == {st.target[c].res :
                     c \in {j \in prs[idx] :
                               st.resname[st.target[j].res] \in DOMAIN THREE_TO_ONE_MAP}}
    IN  IF prs[idx] # {} /\ binder_resname \in DOMAIN THREE_TO_ONE_MAP
        THEN [binder |-> [k \in (DOMAIN acc.binder) \cup {res} |->
                             IF k = res THEN THREE_TO_ONE_MAP[binder_resname]
                             ELSE acc.binder[k]],
              target |-> [k \in (DOMAIN acc.target) \cup close |->
                             IF k \in close THEN THREE_TO_ONE_MAP[st.resname[k]]
                             ELSE acc.target[k]],
              indices |-> acc.indices \cup close]
        ELSE acc

\* lines 57-77 and 109-111: parse, build the trees, query, count the pairs;
\* any exception is logged and None is returned
ContactsQuery ==
    /\ cpc = "start"
    /\ hpc \in {"returned", "raised"}
    /\ IF ContactsSetupFails(structure)
       THEN /\ cpc' = "returned"
            /\ contact_results' = [kind |-> "None"]
            /\ UNCHANGED <<contact_pairs, contact_idx, atom_contacts>>
       ELSE /\ contact_pairs' = query_ball_tree(Coords(structure.binder),
                                               Coords(structure.target),
                                               atom_distance_cutoff)
            /\ atom_contacts' = SumLen(contact_pairs', 1)
            /\ contact_idx' = 1
            /\ cpc' = "loop"
            /\ UNCHANGED contact_results
    /\ UNCHANGED <<batchVars, relaxVars, parseVars, dsspVars, scoreVars, structure, atom_distance_cutoff,
                   hpc, pairs, binder_idx, interacting_residues, binder_residues,
                   target_residues, target_residue_indices>>

\* lines 79-94: one binder atom
ContactsStep ==
    /\ cpc = "loop"
    /\ contact_idx <= Len(structure.binder)
    /\ LET acc == ContactsVisit(structure, contact_pairs, contact_idx,
                                [binder |-> binder_residues, target |-> target_residues,
                                 indices |-> target_residue_indices])
       IN  /\ binder_residues' = acc.binder
           /\ target_residues' = acc.target
           /\ target_residue_indices' = acc.indices
    /\ contact_idx' = contact_idx + 1
    /\ UNCHANGED <<batchVars, relaxVars, parseVars, dsspVars, scoreVars, structure, atom_distance_cutoff,
                   hpc, pairs, binder_idx, interacting_residues, cpc, contact_pairs,
                   atom_contacts, contact_results>>

\* lines 96-107
ContactsReturn ==
    /\ cpc = "loop"
    /\ contact_idx > Len(structure.binder)
    /\ cpc' = "returned"
    /\ contact_results' =
          [kind |-> "dict",
           val |-> [binder_residues |-> binder_residues,
                    target_residues |-> target_residues,
                    target_residue_list |-> sorted(target_residue_indices),
                    binder_residue_list |-> sorted(DOMAIN binder_residues),
                    total_interface_residues |->
                        Cardinality(DOMAIN binder_residues)
                            + Cardinality(DOMAIN target_residues),
                    atom_contacts |-> atom_contacts]]
    /\ UNCHANGED <<batchVars, relaxVars, parseVars, dsspVars, scoreVars, structure, atom_distance_cutoff,
                   hpc, pairs, binder_idx, interacting_residues, contact_pairs, contact_idx,
                   binder_residues, target_residues, target_residue_indices, atom_contacts>>

NextHotspot ==
    \/ HotspotQuery
    \/ HotspotStep
    \/ HotspotReturn
    \/ ContactsQuery
    \/ ContactsStep
    \/ ContactsReturn

SpecHotspot == InitHotspot /\ [][NextHotspot]_vars

\* ----------------------------------------------------- calc_ss_percentage
\* A binder residue as calc_ss_percentage sees it: ss is the DSSP code of its
\* entry ("none": DSSP has no entry for it), interacting says whether its
\* number is a key of hotspot_residues, fails names where its iteration
\* raises: "no", "early" (lines 62-64) or "bfactor" (the first mean b-factor
\* computed for it, line 74 or line 79).
ResidueRecords ==
    [ss : {"H", "E", "-"}, interacting : BOOLEAN, fails : {"no", "bfactor"}]
    \cup [ss : {"none"}, interacting : {FALSE}, fails : {"no"}]
    \cup [ss : {"H"}, interacting : {TRUE}, fails : {"early"}]

\* lines 65-69
SsType(ss) ==
    IF ss \in {"H", "G", "I"} THEN "helix"
    ELSE IF ss = "E" THEN "sheet"
    ELSE "loop"

\* ss_counts[ss_type] += 1 on a defaultdict(int)
Increment(counts, ss_type) == [counts EXCEPT ![ss_type] = @ + 1]

\* lines 61-83: one iteration of the loop over the binder residues; the except
\* clause keeps what the iteration changed before it raised
ResidueStep(res, idx, st) ==
    IF res.fails = "early" \/ res.ss = "none" THEN st
    ELSE
      LET ss_type == SsType(res.ss)
          counted == [st EXCEPT !.ss_counts = Increment(@, ss_type)]
      IN  IF ss_type # "loop" /\ res.fails = "bfactor" THEN counted
          ELSE
            LET averaged == IF ss_type # "loop"
                            THEN [counted EXCEPT !.plddts_ss = Append(@, idx)]
                            ELSE counted
            IN  IF ~res.interacting THEN averaged
                ELSE
                  LET icounted == [averaged EXCEPT
                                      !.ss_interface_counts = Increment(@, ss_type)]
                  IN  IF res.fails = "bfactor" THEN icounted
                      ELSE [icounted EXCEPT !.plddts_interface = Append(@, idx)]

\* sum(counts.values())
Total(counts) == counts.helix + counts.sheet + counts.loop

\* mutant: the percentage rounded to a whole number
PctWhole(n, d) == 100 * ((200 * n + d) \div (2 * d))

\* round((n / d) * 100, 2) in hundredths of a percent: nearest, ties to even
Pct(n, d) ==
    LET q == (10000 * n) \div d
        r == (10000 * n) % d
    IN  IF 2 * r < d THEN q
        ELSE IF 2 * r > d THEN q + 1
        ELSE IF q % 2 = 0 THEN q ELSE q + 1

\* lines 91-97: the three fractions of one set of counts, 0 when it is empty
Fractions(counts) ==
    LET total == Total(counts)
    IN  IF total > 0
        THEN [helix |-> Pct(counts.helix, total),
              sheet |-> Pct(counts.sheet, total),
              loop |-> Pct(total - counts.helix - counts.sheet, total)]
        ELSE NoCounts

\* mutant: a summary is returned whatever the number of residues counted
NoResiduesProcessedNever(counts) == FALSE

\* lines 88-89
NoResiduesProcessed(counts) == Total(counts) = 0

InitDssp ==
    /\ RelaxIdle
    /\ BatchIdle
    /\ HotspotIdle
    /\ ScoreIdle
    /\ ParseIdle
    /\ chain \in UNION {[1..n -> ResidueRecords] : n \in 0..MaxResidues}
    /\ dssp_setup \in {"ok", "file_missing", "chain_missing", "dssp_raise", "hotspot_raise"}
    /\ dssp_setup # "ok" => chain = <<>>
    /\ dpc = "start"
    /\ residue_idx = 0
    /\ ss_counts = NoCounts
    /\ ss_interface_counts = NoCounts
    /\ plddts_ss = <<>>
    /\ plddts_interface = <<>>
    /\ ss_summary = None

\* lines 11-58: files, parse, binder chain, DSSP run, hotspot_residues; any
\* failure is re-raised (lines 106-108)
DsspSetup ==
    /\ dpc = "start"
    /\ dpc' = IF dssp_setup = "ok" THEN "loop" ELSE "raised"
    /\ residue_idx' = IF dssp_setup = "ok" THEN 1 ELSE residue_idx
    /\ UNCHANGED <<batchVars, relaxVars, parseVars, hotspotVars, scoreVars, chain, dssp_setup, ss_counts, ss_interface_counts,
                   plddts_ss, plddts_interface, ss_summary>>

\* lines 60-83
DsspResidue ==
    /\ dpc = "loop"
    /\ residue_idx <= Len(chain)
    /\ LET st == ResidueStep(chain[residue_idx], residue_idx,
                     [ss_counts |-> ss_counts, ss_interface_counts |-> ss_interface_counts,
                      plddts_ss |-> plddts_ss, plddts_interface |-> plddts_interface])
       IN  /\ ss_counts' = st.ss_counts
           /\ ss_interface_counts' = st.ss_interface_counts
           /\ plddts_ss' = st.plddts_ss
           /\ plddts_interface' = st.plddts_interface
    /\ residue_idx' = residue_idx + 1
    /\ UNCHANGED <<batchVars, relaxVars, parseVars, hotspotVars, scoreVars, chain, dssp_setup, dpc, ss_summary>>

\* lines 85-104: totals, the check for an empty count, the summary
DsspSummary ==
    /\ dpc = "loop"
    /\ residue_idx > Len(chain)
    /\ IF NoResiduesProcessed(ss_counts)
       THEN dpc' = "raised" /\ UNCHANGED ss_summary
       ELSE /\ dpc' = "returned"
            /\ ss_summary' = [global |-> Fractions(ss_counts),
                               interface |-> Fractions(ss_interface_counts),
                               i_plddt |-> plddts_interface,
                               ss_plddt |-> plddts_ss]
    /\ UNCHANGED <<batchVars, relaxVars, parseVars, hotspotVars, scoreVars, chain, dssp_setup, residue_idx, ss_counts,
                   ss_interface_counts, plddts_ss, plddts_interface>>

NextDssp ==
    \/ DsspSetup
    \/ DsspResidue
    \/ DsspSummary

SpecDssp == InitDssp /\ [][NextDssp]_vars

\* -------------------------------------------------------- score_interface
\* Values of the score record: a number is the fraction <<n, d>>, None is <<>>.
Frac(n, d) == <<n, d>>
Zero == Frac(0, 1)
NoValue == <<>>
\* a value the analyzer or a metric computed
Measured == Frac(1, 1)

\* the calls of score_interface that can raise, by the block they are in;
\* those of GuardedFaults sit in a try/except that defaults the feature to 0
GuardedFaults == {"sc", "hbonds", "dG", "dSASA", "packstat", "ratio", "unsat"}
Faults == {"pose", "iam", "hotspot", "all_data", "binder_score", "binder_sasa",
           "split", "layer"} \cup GuardedFaults

\* try: x = <call> except Exception: x = 0 (lines 72-121)
Guarded(fault, name, value) == IF fault = name THEN Zero ELSE value

\* mutant: the percentage defaults to 0 like interface_hydrophobicity
PercentageOrZero(count, nres) ==
    IF nres # 0 THEN Frac(count[1] * 100, count[2] * nres) ELSE Zero

\* lines 125-130: (count / interface_nres) * 100, None without interface residue
Percentage(count, nres) ==
    IF nres # 0 THEN Frac(count[1] * 100, count[2] * nres) ELSE NoValue

\* d with the entries of e added or replaced
Assign(dict, e) ==
    [k \in (DOMAIN dict) \cup (DOMAIN e) |-> IF k \in DOMAIN e THEN e[k] ELSE dict[k]]

\* the keys of a dict of residue numbers, in ascending order
RECURSIVE KeysInOrder(_)
KeysInOrder(keys) ==
    IF keys = {} THEN <<>>
    ELSE LET least == CHOOSE k \in keys : \A j \in keys : k <= j
         IN  <<least>> \o KeysInOrder(keys \ {least})

\* line 43, restricted to the letters of the residue names modelled
Letters == {"A", "G", "K"}
\* line 62, restricted to Letters
hydrophobic_aa == {"A"}

InitScore ==
    /\ RelaxIdle
    /\ BatchIdle
    /\ HotspotIdle
    /\ DsspIdle
    /\ ParseIdle
    /\ score_fault \in Faults \cup {"none"}
    /\ interface_residues_set \in
          UNION {[keys -> {"A"}] \cup [keys -> {"G"}] : keys \in SUBSET BinderResidues}
    /\ measured \in [hbonds : 0..MaxCount, unsat : 0..MaxCount]
    /\ spc = "load"
    /\ score_locals = EmptyMap
    /\ interface_AA = EmptyMap
    /\ interface_residues_pdb_ids = <<>>
    /\ score_ret = "none"

\* an unguarded call raised: the exception leaves score_interface
ScoreRaise ==
    /\ spc' = "done"
    /\ score_ret' = "raised"

\* lines 18-23
ScoreLoadPose ==
    /\ spc = "load"
    /\ IF score_fault = "pose"
       THEN spc' = "done" /\ score_ret' = "NoneNoneNone"
       ELSE spc' = "analyze" /\ UNCHANGED score_ret
    /\ UNCHANGED <<batchVars, relaxVars, parseVars, hotspotVars, dsspVars, score_fault, interface_residues_set, measured,
                   score_locals, interface_AA, interface_residues_pdb_ids>>

\* lines 25-40
ScoreAnalyze ==
    /\ spc = "analyze"
    /\ IF score_fault = "iam"
       THEN ScoreRaise
       ELSE spc' = "residues" /\ UNCHANGED score_ret
    /\ UNCHANGED <<batchVars, relaxVars, parseVars, hotspotVars, dsspVars, score_fault, interface_residues_set, measured,
                   score_locals, interface_AA, interface_residues_pdb_ids>>

\* lines 43-57 for the dict hotspot_residues returned: the count per letter,
\* the residue ids and their number
InterfaceCounts(residues) ==
    LET ids == KeysInOrder(DOMAIN residues)
    IN  [interface_AA |-> [aa \in Letters |->
                              Cardinality({r \in DOMAIN residues : residues[r] = aa})],
         interface_residues_pdb_ids |-> ids,
         interface_nres |-> Len(ids)]

\* lines 42-65
ScoreInterfaceResidues ==
    /\ spc = "residues"
    /\ IF score_fault = "hotspot"
       THEN ScoreRaise /\ UNCHANGED <<score_locals, interface_AA, interface_residues_pdb_ids>>
       ELSE LET ids == InterfaceCounts(interface_residues_set).interface_residues_pdb_ids
                counts == InterfaceCounts(interface_residues_set).interface_AA
                interface_nres == InterfaceCounts(interface_residues_set).interface_nres
                hydrophobic_count ==
                    Cardinality({r \in DOMAIN interface_residues_set :
                                    interface_residues_set[r] \in hydrophobic_aa})
            IN  /\ interface_AA' = counts
                /\ interface_residues_pdb_ids' = ids
                /\ score_locals' = Assign(score_locals,
                      [interface_nres |-> Frac(interface_nres, 1),
                       interface_hydrophobicity |->
                           IF interface_nres # 0
                           THEN Frac(hydrophobic_count * 100, interface_nres)
                           ELSE Zero])
                /\ spc' = "statistics"
                /\ UNCHANGED score_ret
    /\ UNCHANGED <<batchVars, relaxVars, parseVars, hotspotVars, dsspVars, score_fault, interface_residues_set, measured>>

\* lines 67-121
ScoreStatistics ==
    /\ spc = "statistics"
    /\ IF score_fault = "all_data"
       THEN ScoreRaise /\ UNCHANGED score_locals
       ELSE /\ score_locals' = Assign(score_locals,
                  [interface_sc |-> Guarded(score_fault, "sc", Measured),
                   interface_interface_hbonds |->
                       Guarded(score_fault, "hbonds", Frac(measured.hbonds, 1)),
                   interface_dG |-> Guarded(score_fault, "dG", Measured),
                   interface_dSASA |-> Guarded(score_fault, "dSASA", Measured),
                   interface_packstat |-> Guarded(score_fault, "packstat", Measured),
                   interface_dG_SASA_ratio |-> Guarded(score_fault, "ratio", Measured),
                   interface_delta_unsat_hbonds |->
                       Guarded(score_fault, "unsat", Frac(measured.unsat, 1))])
            /\ spc' = "percentages"
            /\ UNCHANGED score_ret
    /\ UNCHANGED <<batchVars, relaxVars, parseVars, hotspotVars, dsspVars, score_fault, interface_residues_set, measured,
                   interface_AA, interface_residues_pdb_ids>>

\* lines 123-131
ScorePercentages ==
    /\ spc = "percentages"
    /\ LET interface_nres == score_locals["interface_nres"][1]
       IN  score_locals' = Assign(score_locals,
              [interface_hbond_percentage |->
                   Percentage(score_locals["interface_interface_hbonds"], interface_nres),
               interface_delta_unsat_hbonds_percentage |->
                   Percentage(score_locals["interface_delta_unsat_hbonds"], interface_nres)])
    /\ spc' = "binder"
    /\ UNCHANGED <<batchVars, relaxVars, parseVars, hotspotVars, dsspVars, score_fault, interface_residues_set, measured,
                   interface_AA, interface_residues_pdb_ids, score_ret>>

\* lines 133-148: TotalEnergyMetric and SasaMetric of the binder chain
ScoreBinderMetrics ==
    /\ spc = "binder"
    /\ IF score_fault \in {"binder_score", "binder_sasa"}
       THEN ScoreRaise /\ UNCHANGED score_locals
       ELSE /\ score_locals' = Assign(score_locals,
                  [binder_score |-> Measured,
                   interface_fraction |->
                       IF score_locals["interface_dSASA"] = Zero THEN Zero ELSE Measured])
            /\ spc' = "surface"
            /\ UNCHANGED score_ret
    /\ UNCHANGED <<batchVars, relaxVars, parseVars, hotspotVars, dsspVars, score_fault, interface_residues_set, measured,
                   interface_AA, interface_residues_pdb_ids>>

\* lines 150-177
ScoreSurface ==
    /\ spc = "surface"
    /\ IF score_fault \in {"split", "layer"}
       THEN ScoreRaise /\ UNCHANGED score_locals
       ELSE /\ score_locals' = Assign(score_locals, [surface_hydrophobicity |-> Measured])
            /\ spc' = "return"
            /\ UNCHANGED score_ret
    /\ UNCHANGED <<batchVars, relaxVars, parseVars, hotspotVars, dsspVars, score_fault, interface_residues_set, measured,
                   interface_AA, interface_residues_pdb_ids>>

\* lines 179-198
ScoreReturn ==
    /\ spc = "return"
    /\ spc' = "done"
    /\ score_ret' = "record"
    /\ UNCHANGED <<batchVars, relaxVars, parseVars, hotspotVars, dsspVars, score_fault, interface_residues_set, measured,
                   score_locals, interface_AA, interface_residues_pdb_ids>>

NextScore ==
    \/ ScoreLoadPose
    \/ ScoreAnalyze
    \/ ScoreInterfaceResidues
    \/ ScoreStatistics
    \/ ScorePercentages
    \/ ScoreBinderMetrics
    \/ ScoreSurface
    \/ ScoreReturn

SpecScore == InitScore /\ [][NextScore]_vars

\* ----------------------------------------------------------- get_pdb_files
\* file names as sequences of characters
FileNames == {<<"a", ".", "p">>, <<"a", ".", "q">>, <<"a", ".", "p", ".", "q">>,
              <<"b", ".", "p">>, <<"b">>, <<".", "p">>}

\* line 18: filename.split('.')[0], the text before the first '.' (the whole
\* name when it has none, the empty text when it begins with one)
RECURSIVE split_first(_)
split_first(filename) ==
    IF filename = <<>> \/ Head(filename) = "." THEN <<>>
    ELSE <<Head(filename)>> \o split_first(Tail(filename))

\* mutant: an id already in the dict keeps its path
StoreFirst(dict, submission_id, path) ==
    IF submission_id \in DOMAIN dict THEN dict
    ELSE [k \in (DOMAIN dict) \cup {submission_id} |->
             IF k = submission_id THEN path ELSE dict[k]]

\* line 20: pdb_files[submission_id] = path
Store(dict, submission_id, path) ==
    [k \in (DOMAIN dict) \cup {submission_id} |->
        IF k = submission_id THEN path ELSE dict[k]]

InitParse ==
    /\ RelaxIdle
    /\ BatchIdle
    /\ HotspotIdle
    /\ DsspIdle
    /\ ScoreIdle
    /\ dir_files \in [1..NumDirs -> {fs \in SUBSET FileNames : Cardinality(fs) <= MaxFiles}]
    /\ dir_present \in [1..NumDirs -> BOOLEAN]
    /\ ppc = "dirs"
    /\ directory = 1
    /\ unvisited = {}
    /\ found = EmptyMap

\* lines 10-15: the next directory of the list; one that does not exist is
\* skipped, else its files are listed
ParseDirectory ==
    /\ ppc = "dirs"
    /\ directory <= NumDirs
    /\ IF ~dir_present[directory]
       THEN directory' = directory + 1 /\ UNCHANGED <<ppc, unvisited>>
       ELSE /\ unvisited' = dir_files[directory]
            /\ ppc' = "files"
            /\ UNCHANGED directory
    /\ UNCHANGED <<batchVars, relaxVars, hotspotVars, dsspVars, scoreVars, dir_files,
                   dir_present, found>>

\* lines 15-20: one file of the directory, in the order os.listdir gives
ParseFile ==
    /\ ppc = "files"
    /\ \E filename \in unvisited :
          /\ found' = Store(found, split_first(filename), <<directory, filename>>)
          /\ unvisited' = unvisited \ {filename}
    /\ UNCHANGED <<batchVars, relaxVars, hotspotVars, dsspVars, scoreVars, dir_files,
                   dir_present, ppc, directory>>

\* the inner loop is over
ParseDirectoryDone ==
    /\ ppc = "files"
    /\ unvisited = {}
    /\ directory' = directory + 1
    /\ ppc' = "dirs"
    /\ UNCHANGED <<batchVars, relaxVars, hotspotVars, dsspVars, scoreVars, dir_files,
                   dir_present, unvisited, found>>

\* lines 22-23
ParseReturn ==
    /\ ppc = "dirs"
    /\ directory > NumDirs
    /\ ppc' = "returned"
    /\ UNCHANGED <<batchVars, relaxVars, hotspotVars, dsspVars, scoreVars, dir_files,
                   dir_present, directory, unvisited, found>>

NextParse ==
    \/ ParseDirectory
    \/ ParseFile
    \/ ParseDirectoryDone
    \/ ParseReturn

SpecParse == InitParse /\ [][NextParse]_vars

\* ================================================================== claims
BatchOver == phase \in {"returned", "saved", "raised"} /\ Len(submissions) > 0
Rows == batch_results.rows
RowsWithId(rows, id) == {j \in 1..Len(rows) : rows[j]["id"] = <<id>>}
IsFailed(row) == row["status"] = <<"failed">>
IsSuccess(row) == row["status"] = <<"success">>
InputsPresent ==
    dataPathExists /\ csvExists /\ \A d \in 1..NumDirs : structDirExists[d]
SliceIsEmpty == end_idx <= start_idx \/ start_idx >= Len(Table)

\* C1: once process_submissions_batch has returned for a non-empty slice, it
\* has returned a table with exactly one row per submission of the slice: as
\* many rows as the slice has, each id of the slice in exactly one row.
C1_OneRowPerSubmission ==
    BatchOver =>
        /\ batch_results.ok
        /\ Len(Rows) = Len(submissions)
        /\ \A k \in 1..Len(submissions) :
              Cardinality(RowsWithId(Rows, submissions[k].id)) = 1

C1_Witness ==
    /\ artifact.written
    /\ Len(artifact.rows) >= 2
    /\ \E j \in 1..Len(artifact.rows) : IsFailed(artifact.rows[j])
    /\ \E j \in 1..Len(artifact.rows) : IsSuccess(artifact.rows[j])
    /\ \E j \in 1..Len(results) : results[j].interface = "NoneNoneNone"

\* C2: no call of process_submission lets an exception out, whatever the
\* lookup and the stages do: every finished call has handed back a 6-tuple
\* (id, sequence, dssp results, interface results, contact results, error).
C2_NeverRaises ==
    /\ \A k \in 1..Len(task) : task[k].pc # "raised"
    /\ \A j \in 1..Len(results) :
          DOMAIN results[j] = {"id", "sequence", "dssp", "interface", "contact", "error"}
    /\ Len(results) = Cardinality({k \in 1..Len(task) : task[k].pc = "done"})

C2_Witness ==
    /\ \E j \in 1..Len(results) :
          /\ results[j].error # NoError
          /\ results[j].error[1] = "Error processing submission"
    /\ \E j \in 1..Len(results) :
          /\ results[j].error # NoError
          /\ results[j].error[1] = "Interface scoring failed for"

\* the collaborators of submission id have failed at some stage
StageFailed(id) ==
    /\ id \in DOMAIN behaviour
    /\ \/ behaviour[id] = "relax_false" /\ RelaxedKey(id) \notin relaxed0
       \/ behaviour[id] \in {"relax_raise", "dssp_raise", "score_raise", "score_null",
                             "score_null_contact_none", "contact_none"}

\* C3: a submission one of whose stages failed has a result with a non-null
\* error and its three result slots null.
C3_StageFailureGivesError ==
    \A j \in 1..Len(results) :
        StageFailed(results[j].id) =>
            /\ results[j].error # NoError
            /\ results[j].dssp = None
            /\ results[j].interface = None
            /\ results[j].contact = None

\* the cells of a row that hold a value
NonNull(row) == {<<c, row[c]>> : c \in {x \in DOMAIN row : row[x] # NaN}}

\* the row a submission yields by itself: from its own record, its own entry
\* of the lookup, its own cache file and the behaviour of its own collaborators
SoloRow(sub) ==
    ResultRow(process_submission(sub, pdb_files, relaxed0,
        IF sub.id \in DOMAIN behaviour THEN behaviour[sub.id] ELSE "ok").ret)

C5_FailedRowsNullFilled ==
    (BatchOver /\ batch_results.ok) =>
        \A j \in 1..Len(Rows) : IsFailed(Rows[j]) =>
            \A i \in 1..Len(Rows) : IsSuccess(Rows[i]) =>
                \A c \in DOMAIN Rows[i] : Rows[i][c] = Num =>
                    c \in DOMAIN Rows[j] /\ Rows[j][c] = NaN

C5_Witness ==
    /\ BatchOver /\ batch_results.ok
    /\ \E i, j \in 1..Len(Rows) :
          /\ IsSuccess(Rows[i]) /\ Rows[i]["interface_nres"] = Num
          /\ IsFailed(Rows[j]) /\ "interface_nres" \in DOMAIN Rows[j]
          /\ Rows[j]["interface_nres"] = NaN

\* C6: every returned table has the column set made of id, status, error and
\* all secondary-structure, interface-score and contact fields.
C6_OneColumnSet ==
    (BatchOver /\ batch_results.ok) =>
        \A j \in 1..Len(Rows) : DOMAIN Rows[j] = AllFields

\* C7: a call of pr_relax begun after a call on the same path returned True
\* returns True without invoking the engine (no pose loading, no FastRelax).
C7_SecondCallSkipsEngine ==
    \A w \in Callers : afterSuccess[w] =>
        /\ engineRuns[w] = 0
        /\ rpc[w] = "idle"
        /\ rret[w] = "True"

C7_Witness ==
    /\ completed
    /\ \E w \in Callers : afterSuccess[w] /\ rret[w] = "True" /\ hitSeen[w] = "clean"

\* C8 as stated: with the data path, a structure directory or the input table
\* missing, run_batch_processing raises with no pool, no pipeline, no
\* directory created and no artifact written.
C8_NothingDoneBeforeError ==
    ~InputsPresent =>
        /\ phase \in {"start", "raised"}
        /\ (phase = "raised" => raised # "none")
        /\ num_cores = 0 /\ task = <<>> /\ results = <<>> /\ ~lookupBuilt
        /\ ~artifact.written
        /\ createdDirs = {}

\* C8 amended: ... no pool, no pipeline and no artifact; directories have been
\* created only when the input table alone is missing.
C8_NoBatchBeforeError ==
    ~InputsPresent =>
        /\ phase \in {"start", "raised"}
        /\ (phase = "raised" => raised # "none")
        /\ num_cores = 0 /\ task = <<>> /\ results = <<>> /\ ~lookupBuilt
        /\ ~artifact.written
        /\ createdDirs # {} =>
              dataPathExists /\ \A d \in 1..NumDirs : structDirExists[d]

C8_Witness ==
    /\ phase = "raised"
    /\ ~csvExists
    /\ raised = "Input CSV file does not exist"
    /\ createdDirs = SaveDirs

\* C9: with an empty slice the call ends in an error for the caller, and no
\* lookup is built, no pool started, no submission processed, no artifact
\* written.
C9_EmptySliceIsFatal ==
    (InputsPresent /\ SliceIsEmpty) =>
        /\ phase \in {"start", "batch", "returned", "raised"}
        /\ (phase = "returned" => ~batch_results.ok)
        /\ (phase = "raised" => raised # "none")
        /\ ~lookupBuilt /\ num_cores = 0 /\ task = <<>> /\ results = <<>>
        /\ ~artifact.written

C9_Witness ==
    /\ InputsPresent /\ SliceIsEmpty
    /\ phase = "raised"
    /\ raised = "DataFrame constructor not properly called!"

\* the results of a pool of one worker: the submissions one after the other,
\* in table order, each seeing the relaxed files the ones before left
RECURSIVE SequentialResults(_, _)
SequentialResults(subs, relaxed) ==
    IF subs = <<>> THEN <<>>
    ELSE LET sub == Head(subs)
             beh == IF sub.id \in DOMAIN behaviour THEN behaviour[sub.id] ELSE "ok"
         IN  <<process_submission(sub, pdb_files, relaxed, beh).ret>>
             \o SequentialResults(Tail(subs), RelaxedAfter(sub, pdb_files, relaxed, beh))

SequentialTable ==
    ConvertResults(ProcessResultList(SequentialResults(submissions, relaxed0)))

\* C10: whatever the pool size and the interleaving, the returned rows are, as
\* a set, the rows of the run with one worker.
C10_PoolSizeIndependent ==
    BatchOver =>
        /\ batch_results.ok
        /\ SeqToSet(Rows) = SeqToSet(SequentialTable)

C10_Witness ==
    /\ phase = "saved"
    /\ num_cores >= 2
    /\ Len(results) >= 2
    /\ results[1].id = submissions[2].id
    /\ results[1].error = NoError

\* the (binder atom, target atom) index pairs at Euclidean distance within the cutoff
ClosePairs ==
    {pr \in (1..Len(structure.binder)) \X (1..Len(structure.target)) :
        Dist2(structure.binder[pr[1]].coord, structure.target[pr[2]].coord)
            <= atom_distance_cutoff * atom_distance_cutoff}

IsStandard(res) == structure.resname[res] \in DOMAIN THREE_TO_ONE_MAP

\* the check of every binder-atom/target-atom pair: residue numbers of the
\* binder residues of standard type owning an atom of a close pair
BruteForceInterface ==
    {res \in BinderResidues :
        IsStandard(res) /\ \E pr \in ClosePairs : structure.binder[pr[1]].res = res}

\* C11: the dict hotspot_residues returns has as keys exactly the binder
\* residues of standard type with an atom within the cutoff of a target atom
\* (the brute-force set), each mapped to its one-letter code; with exactly one
\* close pair, on a standard residue, it has exactly one key, that residue.
C11_HotspotIsBruteForce ==
    hpc = "returned" =>
        /\ DOMAIN interacting_residues = BruteForceInterface
        /\ \A res \in DOMAIN interacting_residues :
              interacting_residues[res] = THREE_TO_ONE_MAP[structure.resname[res]]
        /\ \A pr \in ClosePairs :
              (ClosePairs = {pr} /\ IsStandard(structure.binder[pr[1]].res)) =>
                  DOMAIN interacting_residues = {structure.binder[pr[1]].res}

C11_Witness ==
    /\ hpc = "returned"
    /\ atom_distance_cutoff > 0
    /\ Cardinality(ClosePairs) = 1
    /\ Cardinality(DOMAIN interacting_residues) = 1
    /\ structure.binder[1].res # structure.binder[2].res
    /\ \E i \in 1..Len(structure.binder), j \in 1..Len(structure.target) :
          Dist2(structure.binder[i].coord, structure.target[j].coord) = 2

ChainsPresent == Len(structure.binder) > 0 /\ Len(structure.target) > 0

SumsTo100(t) == Total(t) >= 10000 - 10 /\ Total(t) <= 10000 + 10

\* C13: in every summary calc_ss_percentage returns, the global triple and the
\* interface triple each sum to 100 within 0.1 when the residues counted for
\* it are not zero, and are (0, 0, 0) when they are zero.
C13_FractionsSumTo100 ==
    dpc = "returned" =>
        /\ Total(ss_counts) > 0 => SumsTo100(ss_summary.global)
        /\ Total(ss_counts) = 0 => ss_summary.global = NoCounts
        /\ Total(ss_interface_counts) > 0 => SumsTo100(ss_summary.interface)
        /\ Total(ss_interface_counts) = 0 => ss_summary.interface = NoCounts

C13_Witness ==
    /\ dpc = "returned"
    /\ ss_counts = [helix |-> 1, sheet |-> 1, loop |-> 1]
    /\ Total(ss_summary.global) = 9999
    /\ Total(ss_interface_counts) = 2
    /\ ss_summary.interface.loop = 5000

\* the classifier output has an entry for no residue of the binder chain
NoneClassified == \A i \in 1..Len(chain) : chain[i].ss = "none"

\* what process_submission does with the outcome of this calc_ss_percentage call
PipelineAfterDssp ==
    DsspBlock(Table[1], IF dpc = "raised" THEN "dssp_raise" ELSE "ok")

\* C20: when no binder residue is classified, calc_ss_percentage raises and
\* returns no summary, and process_submission returns at the DSSP stage (no
\* scoring, no contact analysis) with a 'DSSP calculation failed' error and
\* null result slots.
C20_NoResidueClassifiedFails ==
    (dpc \in {"returned", "raised"} /\ dssp_setup = "ok" /\ NoneClassified) =>
        /\ dpc = "raised"
        /\ ss_summary = None
        /\ PipelineAfterDssp.kind = "return"
        /\ PipelineAfterDssp.ret.error # NoError
        /\ PipelineAfterDssp.ret.error[1] = "DSSP calculation failed for"
        /\ PipelineAfterDssp.ret.dssp = None
        /\ PipelineAfterDssp.ret.interface = None
        /\ PipelineAfterDssp.ret.contact = None

C20_Witness ==
    /\ dpc = "raised"
    /\ dssp_setup = "ok"
    /\ Len(chain) >= 2
    /\ NoneClassified

\* the cells a success row gets from the score record (**interface_metrics,
\* then the DataFrame: None becomes null)
MetricCells == [k \in DOMAIN score_locals |->
                   IF score_locals[k] = NoValue THEN NaN ELSE Num]

\* C14: in every record score_interface returns, and in the row cells made
\* from it, interface_hbond_percentage (and the buried-unsatisfied percentage)
\* is null exactly when interface_nres is 0, and otherwise equals the count
\* divided by interface_nres, times 100.
C14_HbondPercentageNullIffNoResidue ==
    score_ret = "record" =>
        LET nres == score_locals["interface_nres"][1]
            hb == score_locals["interface_interface_hbonds"][1]
            un == score_locals["interface_delta_unsat_hbonds"][1]
        IN  /\ nres = Cardinality(DOMAIN interface_residues_set)
            /\ score_locals["interface_hbond_percentage"] = NoValue <=> nres = 0
            /\ score_locals["interface_delta_unsat_hbonds_percentage"] = NoValue <=> nres = 0
            /\ MetricCells["interface_hbond_percentage"] = NaN <=> nres = 0
            /\ MetricCells["interface_delta_unsat_hbonds_percentage"] = NaN <=> nres = 0
            /\ nres > 0 =>
                  /\ score_locals["interface_hbond_percentage"] = Frac(hb * 100, nres)
                  /\ score_locals["interface_delta_unsat_hbonds_percentage"]
                        = Frac(un * 100, nres)

C14_Witness ==
    /\ score_ret = "record"
    /\ interface_residues_set = EmptyMap
    /\ measured.hbonds > 0
    /\ score_fault = "none"
    /\ score_locals["interface_hbond_percentage"] = NoValue

\* the energetics features of the claim, as faults, and the key each one fills
EnergeticsFaults == {"dG", "dSASA", "packstat", "sc", "hbonds", "unsat",
                     "binder_score", "binder_sasa"}
FeatureKey(fault) ==
    CASE fault = "dG" -> "interface_dG"
      [] fault = "dSASA" -> "interface_dSASA"
      [] fault = "packstat" -> "interface_packstat"
      [] fault = "sc" -> "interface_sc"
      [] fault = "hbonds" -> "interface_interface_hbonds"
      [] fault = "unsat" -> "interface_delta_unsat_hbonds"
      [] fault = "binder_score" -> "binder_score"
      [] OTHER -> "interface_fraction"

\* C15: once the pose has loaded, the failure of one energetics feature leaves
\* score_interface returning its record, with that feature 0.
C15_FeatureFailureKeepsRecord ==
    (spc = "done" /\ score_fault \in EnergeticsFaults) =>
        /\ score_ret = "record"
        /\ score_locals[FeatureKey(score_fault)] = Zero

NoStructure(k) == submissions[k].id \notin DOMAIN pdb_files

\* C16: a submission whose id is not in the lookup never enters relaxation or
\* a later stage and leaves no relaxed file; its result is the error 'No PDB
\* file found' for its id with null slots, and its row has status failed.
C16_MissingStructureFailsAtLookup ==
    \A k \in 1..Len(task) : NoStructure(k) =>
        LET id == submissions[k].id
        IN  /\ task[k].pc \in {"queued", "done"}
            /\ RelaxedKey(id) \in relaxedFiles => RelaxedKey(id) \in relaxed0
            /\ \A j \in 1..Len(results) : results[j].id = id =>
                  /\ results[j].error = <<"No PDB file found for submission", id>>
                  /\ results[j].dssp = None
                  /\ results[j].interface = None
                  /\ results[j].contact = None
            /\ task[k].pc = "done" => \E j \in 1..Len(results) : results[j].id = id
            /\ (BatchOver /\ batch_results.ok) =>
                  \A j \in RowsWithId(Rows, id) : IsFailed(Rows[j])

C16_Witness ==
    /\ phase = "saved"
    /\ \E i, j \in 1..Len(artifact.rows) :
          /\ IsSuccess(artifact.rows[i])
          /\ IsFailed(artifact.rows[j])
          /\ artifact.rows[j]["error"][1] = "No PDB file found for submission"

\* the text err holds the message msg
Mentions(err, msg) == \E i \in 1..Len(err) : err[i] = msg

\* C17: the error of the row of a submission one of whose stages failed
\* contains the message of the exception raised where the stage failed.
C17_FailureMessageVerbatim ==
    (BatchOver /\ batch_results.ok) =>
        \A j \in 1..Len(Rows) :
            LET id == Rows[j]["id"][1]
            IN  StageFailed(id) =>
                    /\ IsFailed(Rows[j])
                    /\ Mentions(Rows[j]["error"], FailureMessage(behaviour[id]))

\* C18: a call of pr_relax that returned True left, or found, a file at the
\* path that exists and is not empty.
C18_SuccessMeansNonEmptyFile ==
    \A w \in Callers : (rpc[w] = "idle" /\ rret[w] = "True") =>
        IF hitSeen[w] # "none"
        THEN hitSeen[w] \notin {"absent", "empty"}
        ELSE rbuf[w] \notin {"absent", "empty"}

\* C19: no call that finds the cache path existing, and skips relaxation,
\* finds there a file that is empty, partially written or not yet
\* post-processed.
C19_CacheHitSeesFinishedFile ==
    \A w \in Callers : hitSeen[w] \in {"none", "clean"}

\* a chain is absent from the structure or has no atom
ChainMissing == Len(structure.binder) = 0 \/ Len(structure.target) = 0

\* C21: when the binder chain or the target chain is absent or has no atom,
\* hotspot_residues raises and analyze_interface_contacts returns None;
\* neither returns a residue set.
C21_MissingChainFails ==
    ChainMissing =>
        /\ hpc # "returned"
        /\ interacting_residues = EmptyMap
        /\ cpc = "returned" => contact_results.kind = "None"
        /\ binder_residues = EmptyMap /\ target_residues = EmptyMap

C21_Witness ==
    /\ Len(structure.binder) > 0
    /\ Len(structure.target) = 0
    /\ hpc = "raised"
    /\ cpc = "returned"
    /\ contact_results.kind = "None"

\* C22: within one process_submission run a stage is invoked at most once, in
\* the order relaxation, secondary-structure summary, interface scoring,
\* contact analysis, and only after every earlier stage has completed
\* successfully: relaxation left the relaxed file, the summary returned its
\* tuple, scoring returned its scores.
C22_StageOnlyAfterSuccess ==
    [][\A k \in 1..Len(task) :
          (Len(task') = Len(task) /\ task'[k].pc # task[k].pc) =>
              LET a == task[k].pc
                  b == task'[k].pc
                  beh == BehaviourOf(k)
              IN  /\ \/ b \in {"done", "raised"}
                     \/ <<a, b>> \in {<<"queued", "relax">>, <<"relax", "dssp">>,
                                      <<"dssp", "score">>, <<"score", "contact">>}
                  /\ a = "dssp" => RelaxedKey(submissions[k].id) \in relaxedFiles
                  /\ a = "score" => calc_ss_percentage(beh) = "ss8"
                  /\ a = "contact" => score_interface(beh) = "scores"]_vars

\* the residue at position i of the chain is processed without raising and
\* DSSP has an entry for it
ProcessedCleanly(i) == chain[i].fails = "no" /\ chain[i].ss # "none"

\* C23: once the loop of calc_ss_percentage is over, a residue whose
\* processing raised is in none of the global class counts, interface class
\* counts or confidence lists, and the summary is returned when at least one
\* residue was classified.
C23_RaisingResidueSkipped ==
    (dpc \in {"loop", "returned", "raised"} /\ residue_idx > Len(chain)) =>
        /\ \A t \in {"helix", "sheet", "loop"} :
              /\ ss_counts[t] =
                    Cardinality({i \in 1..Len(chain) :
                        ProcessedCleanly(i) /\ SsType(chain[i].ss) = t})
              /\ ss_interface_counts[t] =
                    Cardinality({i \in 1..Len(chain) :
                        /\ ProcessedCleanly(i)
                        /\ chain[i].interacting
                        /\ SsType(chain[i].ss) = t})
        /\ \A i \in 1..Len(chain) :
              chain[i].fails # "no" =>
                  i \notin SeqToSet(plddts_ss) \cup SeqToSet(plddts_interface)
        /\ (\E i \in 1..Len(chain) : ProcessedCleanly(i)) => dpc # "raised"

\* C24: in the dict analyze_interface_contacts returns, atom_contacts is the
\* number of (binder atom, target atom) pairs within the cutoff over all atoms,
\* those of residues of non-standard type included, while binder_residues and
\* target_residues hold only residues of standard type, of their own chain.
C24_ContactsCountAllAtoms ==
    (cpc = "returned" /\ contact_results.kind = "dict") =>
        /\ contact_results.val.atom_contacts = Cardinality(ClosePairs)
        /\ \A r \in DOMAIN contact_results.val.binder_residues :
              r \in BinderResidues /\ IsStandard(r)
        /\ \A r \in DOMAIN contact_results.val.target_residues :
              r \in TargetResidues /\ IsStandard(r)

C24_Witness ==
    /\ cpc = "returned"
    /\ contact_results.kind = "dict"
    /\ \E pr \in ClosePairs : ~IsStandard(structure.binder[pr[1]].res)
    /\ \E pr \in ClosePairs :
          /\ IsStandard(structure.binder[pr[1]].res)
          /\ ~IsStandard(structure.target[pr[2]].res)
    /\ contact_results.val.atom_contacts = 2
    /\ Cardinality(DOMAIN contact_results.val.binder_residues) = 1
    /\ contact_results.val.target_residues = EmptyMap

\* C27: a target-chain residue of standard type is in target_residues, and in
\* target_residue_list, exactly when one of its atoms is within the cutoff of
\* a binder-chain atom.
C27_TargetSideSymmetric ==
    (cpc = "returned" /\ contact_results.kind = "dict") =>
        \A r \in TargetResidues :
            LET close == \E pr \in ClosePairs : structure.target[pr[2]].res = r
            IN  /\ r \in DOMAIN contact_results.val.target_residues
                      <=> (IsStandard(r) /\ close)
                /\ r \in SeqToSet(contact_results.val.target_residue_list)
                      <=> (IsStandard(r) /\ close)

\* the sum of the values of a dict of counts over Letters
RECURSIVE SumCounts(_, _)
SumCounts(counts, letters) ==
    IF letters = {} THEN 0
    ELSE LET aa == CHOOSE x \in letters : TRUE
         IN  counts[aa] + SumCounts(counts, letters \ {aa})

\* C28: on one structure and cutoff, when both detectors return, interface_nres
\* as score_interface derives it from hotspot_residues equals the length of
\* binder_residue_list of analyze_interface_contacts, the number of ids in
\* interface_residues and the sum of the aa_counts values; the residues are
\* the same ones.
C28_DetectorsAgree ==
    (hpc = "returned" /\ cpc = "returned" /\ contact_results.kind = "dict") =>
        LET scored == InterfaceCounts(interacting_residues)
        IN  /\ scored.interface_nres = Len(contact_results.val.binder_residue_list)
            /\ scored.interface_nres = Len(scored.interface_residues_pdb_ids)
            /\ scored.interface_nres = SumCounts(scored.interface_AA, Letters)
            /\ scored.interface_residues_pdb_ids = contact_results.val.binder_residue_list

C28_Witness ==
    /\ hpc = "returned"
    /\ cpc = "returned"
    /\ contact_results.kind = "dict"
    /\ Len(contact_results.val.binder_residue_list) = 1
    /\ InterfaceCounts(interacting_residues).interface_nres = 1
    /\ \E pr \in ClosePairs : ~IsStandard(structure.binder[pr[1]].res)

\* the directories of the list that exist and hold a file with the given id
DirsWithId(id) ==
    {d \in 1..NumDirs :
        dir_present[d] /\ \E f \in dir_files[d] : split_first(f) = id}

HungInRelax(k) == k \in hung /\ k \in 1..Len(task) /\ task[k].pc = "relax"

\* C26: with a pool of at least two workers and the relaxation call of one
\* submission never returning, every other submission of the batch is
\* eventually processed to a result tuple; the batch call itself stays in
\* the pool loop and never returns.
C26_OthersStillProcessed ==
    /\ \A k \in 1..MaxRows :
          (phase = "pool" /\ num_cores >= 2 /\ k \in 1..Len(task) /\ k \notin hung)
              ~> (/\ k \in 1..Len(task)
                  /\ task[k].pc = "done"
                  /\ \E j \in 1..Len(results) : results[j].id = submissions[k].id)
    /\ [](\A k \in 1..MaxRows : HungInRelax(k) => [](phase = "pool"))

C26_Witness ==
    /\ num_cores >= 2
    /\ \E k \in 1..Len(task) : HungInRelax(k)
    /\ \E k \in 1..Len(task) :
          /\ k \notin hung
          /\ task[k].pc = "done"
          /\ submissions[k].id \in DOMAIN pdb_files
          /\ BehaviourOf(k) = "ok"
    /\ Len(results) = Len(task) - 1

\* C29: a call of pr_relax that returned False has left no file at the cache
\* path (seen once every caller is back and no call ran to the end), and a
\* call returns True on a cache hit only for a file that was there before the
\* first call or after some call ran relaxation, dump and clean_pdb to the end.
C29_FailedCallLeavesNoFile ==
    \A w \in Callers :
        /\ (/\ rret[w] = "False"
            /\ ~completed
            /\ \A v \in Callers : rpc[v] = "idle")
               => cacheFile = "absent"
        /\ (rret[w] = "True" /\ hitSeen[w] # "none")
               => (completed \/ hitSeen[w] = "clean")

\* the row carries an error text: it has the column and the cell is not null
HasError(row) == "error" \in DOMAIN row /\ row["error"] # NaN

\* C30: in every table a batch returns, each row has status 'success' or
\* 'failed', and it carries a non-null error exactly when its status is
\* 'failed'.
C30_ErrorIffFailed ==
    (BatchOver /\ batch_results.ok) =>
        \A j \in 1..Len(Rows) :
            /\ IsSuccess(Rows[j]) \/ IsFailed(Rows[j])
            /\ HasError(Rows[j]) <=> IsFailed(Rows[j])

C30_Witness ==
    /\ BatchOver /\ batch_results.ok
    /\ \E i, j \in 1..Len(Rows) :
          /\ IsSuccess(Rows[i])
          /\ "error" \in DOMAIN Rows[i]
          /\ ~HasError(Rows[i])
          /\ IsFailed(Rows[j])
          /\ HasError(Rows[j])
          /\ Rows[j]["error"] = <<"'NoneType' object is not a mapping">>

====
